---------------------------- MODULE Spec2Model ----------------------------
(* A model of package command (src/command.go): the registry of          *)
(* sub-commands, the pre-argument declarations, TryParse, Parse, Run and   *)
(* ParseAndRun.                                                           *)
(*                                                                        *)
(* Command-line tokens are strings.  The flag package (the Go standard    *)
(* library) is modelled by what flag.Parse does on the tokens of Tokens:  *)
(* a token "-x" sets the boolean flag x, any other token is positional.   *)
(* Argument patterns are sequences of one-character strings, so that      *)
(* cmdArgFromString can look at the first and the last character.         *)
(* A *cmdCont is the index of the cmdCont in conts, the cmdConts that On  *)
(* has allocated: cmds, matchingCmd and the CmdBuilder that On returns    *)
(* point to the same cmdCont.                                             *)
EXTENDS Integers, Sequences, FiniteSets

VARIABLES
    osArgs,              \* os.Args[1:], the process's argument vector
    conts,               \* the cmdConts allocated by On, in allocation order
    cmds,                \* var cmds: name -> *cmdCont
    preargdefs,          \* var preargdefs: the val of each preArgDef, in order
    matchingCmd,         \* var matchingCmd: <<>> (nil) or <<*cmdCont>>
    args,                \* var args: the arguments for the runnable
    flagHelp,            \* var flagHelp: <<>> (nil) or <<b>>, the bool pointed to
    reserveHFlag,        \* var reserveHFlag
    helpPreargOverride,  \* var helpPreargOverride
    matchedBy,           \* what the TryParse call that set matchingCmd returned
    ret,                 \* what the TryParse call just made returned
    trace,               \* how far that TryParse call went
    ran,                 \* what the call just made printed and ran
    exited               \* os.Exit was called

vars == <<osArgs, conts, cmds, preargdefs, matchingCmd, args, flagHelp,
          reserveHFlag, helpPreargOverride, matchedBy, ret, trace, ran,
          exited>>

-----------------------------------------------------------------------------
(* Bounds and input sets *)

MaxArgs == 3
MaxPreArgs == 2

\* The cmdConts allocated: the calls of On and OnHelpShowUsage.
MaxConts == 2


\* In the arity specification: the patterns of one Arguments call, the
\* slots of a cmdCont and the positional tokens after the command name.
MaxPatterns == 1
MaxAritySlots == 3
MaxSupplied == 3

Tokens == {"help", "c1", "a", "-r", "-h"}

ArgVecs == UNION {[1..n -> Tokens] : n \in 0..MaxArgs}

\* The names user commands are registered under.
UserNames == {"c1"}

\* The flags a user command's Flags method declares (flag1 of testCmd1).
UserFlags == {"r"}

\* The flags declared on flag.CommandLine: the modelled program has none.
GlobalFlags == {}

\* Argument patterns: "x", "[y]" and "...".
PatX == <<"x">>
PatOptY == <<"[", "y", "]">>
PatEllipse == <<".", ".", ".">>

\* What an Arguments call is given outside the arity specification: no
\* pattern, which leaves an empty specification.
ArgumentsCalls == {<<>>}

\* The arity specification: every list of patterns one Arguments call may
\* be given, and a command line that names the command and goes on with
\* positional tokens.
Patterns == {PatX, PatOptY, PatEllipse}

PatternLists == UNION {[1..n -> Patterns] : n \in 0..MaxPatterns}

Positionals == {"a"}

ArityArgVecs ==
    {<<"c1">> \o t : t \in UNION {[1..n -> Positionals] : n \in 0..MaxSupplied}}

-----------------------------------------------------------------------------
(* The flag package *)

IsFlagToken(t) == t \in {"-r", "-h"}

FlagName(t) == IF t = "-r" THEN "r" ELSE "h"

\* FlagSet.Parse with ExitOnError on bool flags: ok is FALSE when the
\* process exits (a flag that is not defined), actual holds the flags
\* set explicitly (what Visit visits), rest is FlagSet.Args().
RECURSIVE FlagParseFrom(_, _, _)
FlagParseFrom(formal, toks, actual) ==
    IF toks = <<>>
    THEN [ok |-> TRUE, actual |-> actual, rest |-> <<>>]
    ELSE IF ~IsFlagToken(Head(toks))
    THEN [ok |-> TRUE, actual |-> actual, rest |-> toks]
    ELSE IF FlagName(Head(toks)) \notin formal
    THEN [ok |-> FALSE, actual |-> actual, rest |-> Tail(toks)]
    ELSE FlagParseFrom(formal, Tail(toks), actual \cup {FlagName(Head(toks))})

FlagParse(formal, toks) == FlagParseFrom(formal, toks, {})

\* flag.Arg(i), i counted from 0: "" when there is no such argument.
Arg(residue, i) == IF i < Len(residue) THEN residue[i + 1] ELSE ""

\* slice[n:]
SliceFrom(s, n) == [i \in 1..(Len(s) - n) |-> s[i + n]]

-----------------------------------------------------------------------------
(* Command arguments *)

cmdArgFromString(argPattern) ==
    IF argPattern = PatEllipse
    THEN [name |-> argPattern, argType |-> "atEllipse"]
    ELSE IF argPattern[1] = "[" /\ argPattern[Len(argPattern)] = "]"
    THEN [name |-> argPattern, argType |-> "atOptional"]
    ELSE [name |-> <<"<">> \o argPattern \o <<">">>, argType |-> "atMandatory"]

\* ValidateSlot with an optional slot that consumes nothing.
ValidateSlotOptionalIdle(a, as) ==
    IF a.argType = "atMandatory"
    THEN IF Len(as) = 0 THEN [err |-> "too few arguments", left |-> as]
         ELSE [err |-> "", left |-> Tail(as)]
    ELSE IF a.argType = "atOptional"
    THEN [err |-> "", left |-> as]
    ELSE [err |-> "", left |-> <<>>]

\* ValidateSlot with a "..." slot that consumes nothing.
ValidateSlotEllipseIdle(a, as) ==
    IF a.argType = "atMandatory"
    THEN IF Len(as) = 0 THEN [err |-> "too few arguments", left |-> as]
         ELSE [err |-> "", left |-> Tail(as)]
    ELSE IF a.argType = "atOptional"
    THEN IF Len(as) > 0 THEN [err |-> "", left |-> Tail(as)]
         ELSE [err |-> "", left |-> as]
    ELSE [err |-> "", left |-> as]

\* One slot of Validate's loop: the tokens left, or "too few arguments".
ValidateSlot(a, as) ==
    IF a.argType = "atMandatory"
    THEN IF Len(as) = 0 THEN [err |-> "too few arguments", left |-> as]
         ELSE [err |-> "", left |-> Tail(as)]
    ELSE IF a.argType = "atOptional"
    THEN IF Len(as) > 0 THEN [err |-> "", left |-> Tail(as)]
         ELSE [err |-> "", left |-> as]
    ELSE [err |-> "", left |-> <<>>]

\* Validate that stops at the first "..." slot.
RECURSIVE ValidateEllipseLast(_, _)
ValidateEllipseLast(ca, as) ==
    IF ca = <<>>
    THEN IF Len(as) # 0 THEN "too many arguments" ELSE ""
    ELSE IF Head(ca).argType = "atEllipse" THEN ""
    ELSE LET r == ValidateSlot(Head(ca), as)
         IN  IF r.err # "" THEN r.err ELSE ValidateEllipseLast(Tail(ca), r.left)

\* cmdArgs.Validate: "" is the nil error.
RECURSIVE Validate(_, _)
Validate(ca, as) ==
    IF ca = <<>>
    THEN IF Len(as) # 0 THEN "too many arguments" ELSE ""
    ELSE LET r == ValidateSlot(Head(ca), as)
         IN  IF r.err # "" THEN r.err ELSE Validate(Tail(ca), r.left)

-----------------------------------------------------------------------------
(* Registration *)

NilArgs == [isNil |-> TRUE, slots |-> <<>>]

\* On: the cmdCont stored under name.
OnCont(name, command) ==
    [name |-> name, command |-> command, requiredFlags |-> {}, args |-> NilArgs]

\* Arguments that allocates the slice only when given a pattern.
ArgumentsKeepNil(cont, patterns) ==
    [cont EXCEPT !.args =
        [isNil |-> cont.args.isNil /\ patterns = <<>>,
         slots |-> cont.args.slots \o
                   [i \in 1..Len(patterns) |-> cmdArgFromString(patterns[i])]]]

\* CmdBuilder.Arguments on a cmdCont.
Arguments(cont, patterns) ==
    [cont EXCEPT !.args =
        [isNil |-> FALSE,
         slots |-> cont.args.slots \o
                   [i \in 1..Len(patterns) |-> cmdArgFromString(patterns[i])]]]

\* cmds[name] = cmd
Put(m, name, cmd) ==
    [n \in (DOMAIN m) \cup {name} |-> IF n = name THEN cmd ELSE m[n]]

\* The Cmd values the program passes to On, one for each cmdCont it may
\* allocate, and the cmdUsageCmd of OnHelpShowUsage.
CmdValues == <<"cmd1", "cmd2", "cmd3", "cmd4">>

UserCmd(n) == [kind |-> "user", id |-> CmdValues[n]]
UsageCmd == [kind |-> "usage", id |-> "help"]

-----------------------------------------------------------------------------
(* What a call returned and did *)

NoRet == [reason |-> "none", command |-> "", message |-> <<>>]
RetOK == [reason |-> "OK", command |-> "", message |-> <<>>]
RetExit == [reason |-> "Exit", command |-> "", message |-> <<>>]

\* TryParseError{Reason, Command, Message}
TryParseError(reason, command, message) ==
    [reason |-> reason, command |-> command, message |-> message]

\* How far a TryParse call went: before is matchedBy as the call found
\* it, registry whether a command was registered (line 298), residue is
\* flag.Args(), consumed is consumePreargs, nameArgN is commandNameArgN,
\* parsed whether fs.Parse was called, on fsInput, setting the flags of
\* actual, validated whether Validate was called.
NoTrace ==
    [before |-> "", registry |-> FALSE, residue |-> <<>>, consumed |-> FALSE,
     nameArgN |-> 0, parsed |-> FALSE, fsInput |-> <<>>, actual |-> {},
     validated |-> FALSE]

NoRun == [called |-> FALSE, handler |-> "", hargs |-> <<>>, out |-> <<>>,
          exited |-> FALSE]

Alive == ~exited

Init ==
    /\ osArgs \in ArgVecs
    /\ conts = <<>>
    /\ cmds = <<>>
    /\ preargdefs = <<>>
    /\ matchingCmd = <<>>
    /\ args = <<>>
    /\ flagHelp = <<>>
    /\ reserveHFlag = TRUE
    /\ helpPreargOverride = FALSE
    /\ matchedBy = ""
    /\ ret = NoRet
    /\ trace = NoTrace
    /\ ran = NoRun
    /\ exited = FALSE

Forget == ret' = NoRet /\ trace' = NoTrace /\ ran' = NoRun


-----------------------------------------------------------------------------
(* Configuration: On, Arguments, OnHelpShowUsage, OnHelpIgnorePreargs,   *)
(* PreArg                                                                *)

\* On(name, "", command): a new cmdCont, stored under name in place of the
\* one that may be there, and handed to the caller in a CmdBuilder.  Each
\* call passes a Cmd of its own.
On(name) ==
    /\ Alive
    /\ conts' = Append(conts, OnCont(name, UserCmd(Len(conts) + 1)))
    /\ cmds' = Put(cmds, name, Len(conts) + 1)
    /\ Forget
    /\ UNCHANGED <<osArgs, preargdefs, matchingCmd, args, flagHelp,
                   reserveHFlag, helpPreargOverride, matchedBy, exited>>

\* The CmdBuilders the program holds: On returns one for each user
\* command, OnHelpShowUsage drops the one of "help".
CmdBuilders == {cb \in DOMAIN conts : conts[cb].command.kind = "user"}

\* cb.Arguments(patterns...) on a CmdBuilder the program kept: the cmdCont
\* changes for cmds and for matchingCmd alike.
CmdBuilderArguments(cb, patterns) ==
    /\ Alive
    /\ conts' = [conts EXCEPT ![cb] = Arguments(conts[cb], patterns)]
    /\ Forget
    /\ UNCHANGED <<osArgs, cmds, preargdefs, matchingCmd, args, flagHelp,
                   reserveHFlag, helpPreargOverride, matchedBy, exited>>

OnHelpShowUsage ==
    /\ Alive
    /\ reserveHFlag' = FALSE
    /\ conts' = Append(conts, OnCont("help", UsageCmd))
    /\ cmds' = Put(cmds, "help", Len(conts) + 1)
    /\ Forget
    /\ UNCHANGED <<osArgs, preargdefs, matchingCmd, args, flagHelp,
                   helpPreargOverride, matchedBy, exited>>

OnHelpIgnorePreargs ==
    /\ Alive
    /\ helpPreargOverride' = TRUE
    /\ Forget
    /\ UNCHANGED <<osArgs, conts, cmds, preargdefs, matchingCmd, args,
                   flagHelp, reserveHFlag, matchedBy, exited>>

\* PreArg: one more preArgDef, its val the empty string.
PreArg ==
    /\ Alive
    /\ Len(preargdefs) < MaxPreArgs
    /\ preargdefs' = Append(preargdefs, "")
    /\ Forget
    /\ UNCHANGED <<osArgs, conts, cmds, matchingCmd, args, flagHelp,
                   reserveHFlag, helpPreargOverride, matchedBy, exited>>

-----------------------------------------------------------------------------
(* TryParse *)

\* consumePreargs without the test for "help"
ConsumePreargsAlways(override, residue) == override \/ ~override

\* consumePreargs, line 304
ConsumePreargs(override, residue) ==
    (override /\ ~((Len(residue) > 0) /\ (Arg(residue, 0) = "help")))
        \/ ~override

\* commandNameArgN, lines 293 and 307
CommandNameArgN(consume, defs) == IF consume THEN Len(defs) ELSE 0

\* expectedArgCount, lines 292 and 308
ExpectedArgCount(consume, defs) ==
    IF consume THEN CommandNameArgN(consume, defs) + 1 ELSE 1

\* the loop of lines 313-315 reading flag.Arg(i + 1)
WritePreargsShifted(defs, residue) == [i \in 1..Len(defs) |-> Arg(residue, i)]

\* the loop of lines 313-315
WritePreargs(defs, residue) == [i \in 1..Len(defs) |-> Arg(residue, i - 1)]

\* The flags of the command's FlagSet: those its Flags method declares
\* and, with reserveHFlag, h (lines 325-328).
CommandFlagSet(cont, reserve) ==
    (IF cont.command.kind = "user" THEN UserFlags ELSE {})
        \cup (IF reserve THEN {"h"} ELSE {})

\* flagMap after fs.Visit, lines 334-340
MissingFlags(cont, actual) == cont.requiredFlags \ actual

\* The tokens handed to fs.Parse, the command name among them
FlagArgsWithName(residue, commandNameArgN) == SliceFrom(residue, commandNameArgN)

\* The tokens handed to fs.Parse, line 329
FlagArgs(residue, commandNameArgN) == SliceFrom(residue, commandNameArgN + 1)

\* The test of line 309, one token short
PreArgMissingShort(residue, expectedArgCount) ==
    Len(residue) < expectedArgCount - 2

\* The test of line 309
PreArgMissing(residue, expectedArgCount) == Len(residue) < expectedArgCount - 1

\* The test of line 319, one token short
CommandMissingShort(residue, expectedArgCount) ==
    Len(residue) < expectedArgCount - 1

\* The test of line 319
CommandMissing(residue, expectedArgCount) == Len(residue) < expectedArgCount

\* The errors of lines 310, 320, 342, 349 and 355
NoPreArgError ==
    TryParseError("NoPreArg", "", <<"expected argument(s) before command">>)

NoCommandError == TryParseError("NoCommand", "", <<"missing command">>)

MissingFlagsError(name) ==
    TryParseError("InvalidCommand", name, <<name, "missing required flags">>)

ArgError(name, err) == TryParseError("ArgError", name, <<name, err>>)

InvalidCommandErrorNamed(name) ==
    TryParseError("InvalidCommand", name, <<"invalid command", name>>)

InvalidCommandError(name) ==
    TryParseError("InvalidCommand", "", <<"invalid command", name>>)

\* What a TryParse call that does not reach line 330 leaves in the
\* package's variables and returns.
Return(r, defs, tr) ==
    /\ ret' = r
    /\ preargdefs' = defs
    /\ trace' = tr
    /\ UNCHANGED <<osArgs, conts, cmds, matchingCmd, args, flagHelp,
                   reserveHFlag, helpPreargOverride, matchedBy>>

\* What a TryParse call that went through lines 325-331 leaves and returns.
ReturnMatched(r, defs, cmd, as, fh, tr) ==
    /\ ret' = r
    /\ preargdefs' = defs
    /\ matchingCmd' = <<cmd>>
    /\ args' = as
    /\ flagHelp' = fh
    /\ matchedBy' = r.reason
    /\ trace' = tr
    /\ UNCHANGED <<osArgs, conts, cmds, reserveHFlag, helpPreargOverride>>

\* os.Exit inside flag parsing: TryParse does not return.
Exit == Return(RetExit, preargdefs, NoTrace)

\* Lines 324-353: name is a key of cmds.
TryParseMatched(name, defs, tr) ==
    LET cont == conts[cmds[name]]
        fsInput == FlagArgs(tr.residue, tr.nameArgN)
        fs == FlagParse(CommandFlagSet(cont, reserveHFlag), fsInput)
        fh == IF reserveHFlag THEN <<"h" \in fs.actual>> ELSE flagHelp
        tr1 == [tr EXCEPT !.parsed = TRUE, !.fsInput = fsInput,
                          !.actual = fs.actual]
        tr2 == [tr1 EXCEPT !.validated = TRUE]
    IN  IF ~fs.ok THEN Exit
        ELSE IF MissingFlags(cont, fs.actual) # {}
        THEN ReturnMatched(MissingFlagsError(name), defs, cmds[name], fs.rest, fh,
                           tr1)
        ELSE IF ~cont.args.isNil
        THEN IF Validate(cont.args.slots, fs.rest) # ""
             THEN ReturnMatched(ArgError(name, Validate(cont.args.slots, fs.rest)),
                                defs, cmds[name], fs.rest, fh, tr2)
             ELSE ReturnMatched(RetOK, defs, cmds[name], fs.rest, fh, tr2)
        ELSE ReturnMatched(RetOK, defs, cmds[name], fs.rest, fh, tr1)

\* Lines 303-357: at least one command is registered.
TryParseCommands(residue) ==
    LET consumePreargs == ConsumePreargs(helpPreargOverride, residue)
        commandNameArgN == CommandNameArgN(consumePreargs, preargdefs)
        expectedArgCount == ExpectedArgCount(consumePreargs, preargdefs)
        tr == [NoTrace EXCEPT !.before = matchedBy, !.registry = TRUE,
                              !.residue = residue,
                              !.consumed = consumePreargs,
                              !.nameArgN = commandNameArgN]
        defs == IF consumePreargs THEN WritePreargs(preargdefs, residue)
                ELSE preargdefs
        name == Arg(residue, commandNameArgN)
    IN  IF consumePreargs /\ PreArgMissing(residue, expectedArgCount)
        THEN Return(NoPreArgError, preargdefs, tr)
        ELSE IF CommandMissing(residue, expectedArgCount)
        THEN Return(NoCommandError, defs, tr)
        ELSE IF name \in DOMAIN cmds
        THEN TryParseMatched(name, defs, tr)
        ELSE Return(InvalidCommandError(name), defs, tr)

\* Lines 291-357: what a call of TryParse does to the package's variables.
TryParseCall ==
    LET global == FlagParse(GlobalFlags, osArgs)
    IN  IF ~global.ok THEN Exit
        ELSE IF Cardinality(DOMAIN cmds) < 1
        THEN Return(RetOK, preargdefs,
                    [NoTrace EXCEPT !.before = matchedBy,
                                    !.residue = global.rest])
        ELSE TryParseCommands(global.rest)

\* The program calls TryParse.
TryParse ==
    /\ Alive
    /\ TryParseCall
    /\ ran' = NoRun
    /\ exited' = (ret'.reason = "Exit")

-----------------------------------------------------------------------------
(* Run *)

\* subcommandUsageByName: the usage of a registered command, or the
\* program's usage and os.Exit(1).
subcommandUsageByName(cmdName) ==
    IF cmdName \in DOMAIN cmds
    THEN [out |-> <<"subcommandUsage", cmdName>>, exited |-> FALSE]
    ELSE [out |-> <<"unrecognised command", cmdName, "Usage">>,
          exited |-> TRUE]

\* cmdUsageCmd.Run that prints the top-level usage on two arguments or more.
cmdUsageCmdRunTopLevel(as) ==
    IF Len(as) = 1 THEN subcommandUsageByName(as[1])
    ELSE [out |-> <<"Usage">>, exited |-> FALSE]

\* cmdUsageCmd.Run
cmdUsageCmdRun(as) ==
    IF Len(as) = 0 THEN [out |-> <<"Usage">>, exited |-> FALSE]
    ELSE IF Len(as) = 1 THEN subcommandUsageByName(as[1])
    ELSE subcommandUsageByName("help")

\* matchingCmd.command.Run(args)
CommandRun(cont, as) ==
    IF cont.command.kind = "user"
    THEN [called |-> TRUE, handler |-> cont.command.id, hargs |-> as,
          out |-> <<>>, exited |-> FALSE]
    ELSE [called |-> TRUE, handler |-> cont.command.id, hargs |-> as,
          out |-> cmdUsageCmdRun(as).out, exited |-> cmdUsageCmdRun(as).exited]

\* Run, lines 361-369, on the values mc, fh and as of matchingCmd,
\* flagHelp and args.
RunResultOf(mc, fh, as) ==
    IF mc # <<>>
    THEN IF fh # <<>> /\ fh[1]
         THEN [called |-> TRUE, handler |-> "", hargs |-> <<>>,
               out |-> <<"subcommandUsage", conts[mc[1]].name>>,
               exited |-> FALSE]
         ELSE CommandRun(conts[mc[1]], as)
    ELSE [NoRun EXCEPT !.called = TRUE]

RunResult == RunResultOf(matchingCmd, flagHelp, args)

Run ==
    /\ Alive
    /\ ran' = RunResult
    /\ exited' = ran'.exited
    /\ UNCHANGED <<osArgs, conts, cmds, preargdefs, matchingCmd, args,
                   flagHelp, reserveHFlag, helpPreargOverride, matchedBy,
                   ret, trace>>

-----------------------------------------------------------------------------
(* Parse and ParseAndRun *)

\* TryParseError.Usage, lines 94-101: the message, then the usage of the
\* command the error relates to or the program's usage.
TryParseErrorUsage(r) ==
    <<r.message>> \o
        (IF r.command # "" THEN subcommandUsageByName(r.command).out
         ELSE <<"Usage">>)

\* What Parse prints before os.Exit(1); the flag package prints its own
\* message when it exits.
ParseFailed(r) ==
    IF r.reason = "Exit" THEN NoRun
    ELSE [NoRun EXCEPT !.out = TryParseErrorUsage(r)]

\* Parse, lines 280-287: TryParse, and on an error the usage and
\* os.Exit(1).
Parse ==
    /\ Alive
    /\ TryParseCall
    /\ ran' = IF ret'.reason = "OK" THEN NoRun ELSE ParseFailed(ret')
    /\ exited' = (ret'.reason # "OK")

\* ParseAndRun, lines 372-375: Parse, then Run when Parse returned.
ParseAndRun ==
    /\ Alive
    /\ TryParseCall
    /\ ran' = IF ret'.reason = "OK"
              THEN RunResultOf(matchingCmd', flagHelp', args')
              ELSE ParseFailed(ret')
    /\ exited' = (ret'.reason # "OK" \/ ran'.exited)

-----------------------------------------------------------------------------

\* A program outside the package: what the exported functions do.
Next ==
    \/ \E name \in UserNames : Len(conts) < MaxConts /\ On(name)
    \/ \E cb \in CmdBuilders, patterns \in ArgumentsCalls :
          CmdBuilderArguments(cb, patterns)
    \/ Len(conts) < MaxConts /\ OnHelpShowUsage
    \/ OnHelpIgnorePreargs
    \/ PreArg
    \/ TryParse
    \/ Parse
    \/ Run
    \/ ParseAndRun

Spec == Init /\ [][Next]_vars

\* A program that registers a command, gives it an argument specification
\* and is started with positional tokens after the command's name.
InitArity ==
    /\ osArgs \in ArityArgVecs
    /\ conts = <<>>
    /\ cmds = <<>>
    /\ preargdefs = <<>>
    /\ matchingCmd = <<>>
    /\ args = <<>>
    /\ flagHelp = <<>>
    /\ reserveHFlag = TRUE
    /\ helpPreargOverride = FALSE
    /\ matchedBy = ""
    /\ ret = NoRet
    /\ trace = NoTrace
    /\ ran = NoRun
    /\ exited = FALSE

NextArity ==
    \/ \E name \in UserNames : conts = <<>> /\ On(name)
    \/ \E cb \in CmdBuilders, patterns \in PatternLists :
          /\ Len(conts[cb].args.slots) + Len(patterns) <= MaxAritySlots
          /\ CmdBuilderArguments(cb, patterns)
    \/ TryParse
    \/ Run

SpecArity == InitArity /\ [][NextArity]_vars

-----------------------------------------------------------------------------
(* Properties of TryParse and Run *)

\* A TryParse call has returned, and nothing was configured since.
Returned == ret.reason \notin {"none", "Exit"}

\* The positional residue of that call, flag.Args().
Residue == trace.residue

NPreArgs == Len(preargdefs)

\* The residue is one on which the help-bypass skips the pre-arguments.
Bypassed ==
    helpPreargOverride /\ Len(Residue) > 0 /\ Residue[1] = "help"

\* The index of the command name: 0 when the pre-arguments are skipped,
\* the number of pre-arguments otherwise.
NameIndex == IF Bypassed THEN 0 ELSE NPreArgs

HasCommands == DOMAIN cmds # {}

\* The cmdCont matchingCmd points to.
MatchingCont == conts[matchingCmd[1]]

\* Every pre-argument holds the residue token of its position.
PreArgsWritten == \A i \in 1..NPreArgs : preargdefs[i] = Arg(Residue, i - 1)

\* C1 as stated: whenever TryParse returns nil, whatever the registry, a
\* command is matched and recorded for Run and, unless the help-bypass
\* skipped them, every pre-argument is written from its residue token.
C1_Original ==
    ret.reason = "OK" =>
        /\ matchingCmd # <<>>
        /\ matchedBy = "OK"
        /\ ~Bypassed => PreArgsWritten

\* C1 amended: whenever TryParse returns nil and at least one command is
\* registered, the command named by the token at the command-name index is
\* matched and recorded for Run and, unless the help-bypass skipped them,
\* every pre-argument is written from its residue token; with no command
\* registered TryParse returns nil with no command matched and no
\* pre-argument written.
C1_Amended ==
    ret.reason = "OK" =>
        IF HasCommands
        THEN /\ Arg(Residue, NameIndex) \in DOMAIN cmds
             /\ matchingCmd = <<cmds[Arg(Residue, NameIndex)]>>
             /\ matchedBy = "OK"
             /\ ~Bypassed => PreArgsWritten
        ELSE /\ matchingCmd = <<>>
             /\ \A i \in 1..NPreArgs : preargdefs[i] = ""

C1_Witness ==
    /\ ret.reason = "OK"
    /\ HasCommands
    /\ ~Bypassed
    /\ NPreArgs >= 1
    /\ matchingCmd # <<>>
    /\ PreArgsWritten

\* C2 as stated: after a TryParse that found no command matched and
\* returns InvalidCommand for a missing required flag, or ArgError, no
\* command is matched and a following Run executes no handler (seen in
\* the state that Run leaves).
C2_Claim ==
    (/\ \/ ret.reason = "ArgError"
        \/ ret.reason = "InvalidCommand" /\ ret.command # ""
     /\ trace.before = ""
     /\ ran.called)
        => /\ matchingCmd = <<>>
           /\ ran.handler = ""

\* C3 as stated: after a TryParse that returns NoPreArg, NoCommand or
\* InvalidCommand for an unknown name, the command matched by an earlier
\* TryParse that returned nil is no longer matched, and a following Run
\* neither executes its handler nor renders its usage (seen in the state
\* that Run leaves).
C3_Claim ==
    (/\ \/ ret.reason \in {"NoPreArg", "NoCommand"}
        \/ ret.reason = "InvalidCommand" /\ ret.command = ""
     /\ trace.before = "OK"
     /\ ran.called)
        => /\ matchingCmd = <<>>
           /\ ran.handler = ""
           /\ ran.out = <<>>

\* C4: a TryParse that consumes the pre-arguments on a residue of fewer
\* tokens than there are pre-arguments returns NoPreArg with an empty
\* Command, and leaves every pre-argument value as it was.
C4_NoPreArg ==
    [][(/\ trace'.consumed
        /\ Len(trace'.residue) < Len(preargdefs'))
          => /\ ret'.reason = "NoPreArg"
             /\ ret'.command = ""
             /\ preargdefs' = preargdefs]_vars

C4_Witness ==
    /\ ret.reason = "NoPreArg"
    /\ trace.consumed
    /\ NPreArgs = 2
    /\ Len(Residue) = 1
    /\ preargdefs[1] # Residue[1]

\* C5 as stated: when the residue holds exactly as many tokens as there
\* are pre-arguments, TryParse returns NoCommand and every pre-argument
\* equals its residue token (stated for a registry that holds a command).
C5_Original ==
    (Returned /\ HasCommands /\ Len(Residue) = NPreArgs)
        => (ret.reason = "NoCommand" /\ PreArgsWritten)

\* C5 amended: when at least one command is registered, the pre-arguments
\* are consumed (not skipped by the help-bypass) and the residue holds
\* exactly as many tokens as there are pre-arguments, TryParse returns
\* NoCommand and every pre-argument equals its residue token.
C5_Amended ==
    (Returned /\ HasCommands /\ ~Bypassed /\ Len(Residue) = NPreArgs)
        => (ret.reason = "NoCommand" /\ ret.command = "" /\ PreArgsWritten)

C5_Witness ==
    /\ ret.reason = "NoCommand"
    /\ ~Bypassed
    /\ NPreArgs >= 1
    /\ Len(Residue) = NPreArgs
    /\ PreArgsWritten

\* The token at the command-name index is no key of the registry.
UnknownName ==
    Len(Residue) > NameIndex /\ Residue[NameIndex + 1] \notin DOMAIN cmds

\* C6 as stated: when the token at the command-name index is not a key of
\* the registry, TryParse returns InvalidCommand with an empty Command,
\* the pre-arguments are written from the residue, no command flags are
\* parsed and no arity is checked (stated for a registry that holds a
\* command).
C6_Original ==
    (Returned /\ HasCommands /\ UnknownName)
        => /\ ret.reason = "InvalidCommand"
           /\ ret.command = ""
           /\ PreArgsWritten
           /\ ~trace.parsed
           /\ ~trace.validated

\* C6 amended: when at least one command is registered and the token at
\* the command-name index is not a key of the registry, TryParse returns
\* InvalidCommand with an empty Command, no command flags are parsed and
\* no arity is checked, and, unless the help-bypass skipped them, the
\* pre-arguments are written from the residue.
C6_Amended ==
    (Returned /\ HasCommands /\ UnknownName)
        => /\ ret.reason = "InvalidCommand"
           /\ ret.command = ""
           /\ ~Bypassed => PreArgsWritten
           /\ ~trace.parsed
           /\ ~trace.validated
           /\ matchedBy = trace.before

C6_Witness ==
    /\ ret.reason = "InvalidCommand"
    /\ ret.command = ""
    /\ UnknownName
    /\ ~Bypassed
    /\ NPreArgs >= 1
    /\ PreArgsWritten

\* C7: with n pre-arguments declared and consumed on a residue of at
\* least n tokens, the i-th pre-argument holds the i-th residue token,
\* the command name is the token at index n, and the tokens given to the
\* command's flag parsing are those after index n.
C7_PreArgOrder ==
    (Returned /\ HasCommands /\ ~Bypassed /\ Len(Residue) >= NPreArgs)
        => /\ \A i \in 1..NPreArgs : preargdefs[i] = Residue[i]
           /\ trace.nameArgN = NPreArgs
           /\ trace.parsed =>
                /\ MatchingCont.name = Residue[NPreArgs + 1]
                /\ trace.fsInput = SliceFrom(Residue, NPreArgs + 1)
           /\ (Len(Residue) > NPreArgs /\ ~trace.parsed) =>
                ret.message = <<"invalid command", Residue[NPreArgs + 1]>>

C7_Witness ==
    /\ Returned
    /\ ~Bypassed
    /\ NPreArgs >= 1
    /\ trace.parsed
    /\ Len(trace.fsInput) >= 1
    /\ preargdefs[1] = Residue[1]

\* C8 as stated: with the help-bypass enabled and no command named "help"
\* registered, TryParse on the residue <<"help">> returns NoCommand
\* (stated for a registry that holds a command).
C8_Original ==
    (/\ Returned
     /\ helpPreargOverride
     /\ HasCommands
     /\ "help" \notin DOMAIN cmds
     /\ Residue = <<"help">>)
        => ret.reason = "NoCommand"

\* C8 amended: with the help-bypass enabled, at least one command
\* registered and none named "help", TryParse on the residue <<"help">>
\* skips the pre-arguments and returns InvalidCommand with an empty
\* Command.
C8_Amended ==
    (/\ Returned
     /\ helpPreargOverride
     /\ HasCommands
     /\ "help" \notin DOMAIN cmds
     /\ Residue = <<"help">>)
        => /\ ret.reason = "InvalidCommand"
           /\ ret.command = ""
           /\ ~trace.consumed

C8_Witness ==
    /\ ret.reason = "InvalidCommand"
    /\ helpPreargOverride
    /\ "help" \notin DOMAIN cmds
    /\ Residue = <<"help">>
    /\ NPreArgs >= 1

\* C9 as stated: with the help-bypass enabled and a "help" command
\* registered, a TryParse whose first residue token is "help" skips the
\* pre-arguments, reads the command name at index 0 and returns nil, and
\* after it every pre-argument value is the empty string.
C9_Claim ==
    (/\ Returned
     /\ helpPreargOverride
     /\ "help" \in DOMAIN cmds
     /\ Len(Residue) > 0
     /\ Residue[1] = "help")
        => /\ ret.reason = "OK"
           /\ ~trace.consumed
           /\ trace.nameArgN = 0
           /\ \A i \in 1..NPreArgs : preargdefs[i] = ""

\* Line 163 is the only assignment to requiredFlags: no cmdCont has a
\* required flag, and lines 334-343 never return.
NoRequiredFlags == \A cb \in DOMAIN conts : conts[cb].requiredFlags = {}

-----------------------------------------------------------------------------
(* Properties of Run *)

\* Run was called after a TryParse call that matched a command, with
\* nothing configured in between.
RanMatched == ran.called /\ Returned /\ trace.parsed /\ matchingCmd # <<>>

\* Run printed the matched command's usage and executed no handler.
RanUsage ==
    /\ ran.handler = ""
    /\ ran.out = <<"subcommandUsage", MatchingCont.name>>

\* Run executed the matched command's handler on the stored arguments.
RanHandler ==
    /\ ran.handler = MatchingCont.command.id
    /\ ran.hargs = args

\* C16 as stated: Run prints the matched command's usage instead of
\* executing its handler exactly when -h was set on the command line of
\* the TryParse call that matched the command; otherwise, also after
\* OnHelpShowUsage, it executes the handler, whatever earlier TryParse
\* calls were asked.  Stated for a user command, whose handler prints
\* nothing the usage does.
C16_Claim ==
    (RanMatched /\ MatchingCont.command.kind = "user") =>
        /\ RanUsage <=> "h" \in trace.actual
        /\ "h" \notin trace.actual => RanHandler

\* as is the input of the command's flag parse without its leading flags.
PositionalRest(as, fsInput) ==
    \E k \in 0..Len(fsInput) :
        /\ as = SliceFrom(fsInput, k)
        /\ \A i \in 1..k : IsFlagToken(fsInput[i])
        /\ as # <<>> => ~IsFlagToken(as[1])

\* C13 as stated: TryParse executes no handler, and a Run that follows a
\* TryParse that returned nil without -h set executes exactly the handler
\* registered under the command-name token, on the complete positional
\* rest of the command's flag parse, whatever Validate matched.  Stated
\* for a user command and a registry that holds a command.
C13_Claim ==
    /\ ~ran.called => (ran.handler = "" /\ ran.hargs = <<>>)
    /\ (/\ ran.called
        /\ ret = RetOK
        /\ HasCommands
        /\ "h" \notin trace.actual
        /\ conts[cmds[Arg(Residue, trace.nameArgN)]].command.kind = "user")
           => /\ ran.handler = conts[cmds[Arg(Residue, trace.nameArgN)]].command.id
              /\ ran.hargs = args
              /\ PositionalRest(ran.hargs, trace.fsInput)

\* Run executed the handler that OnHelpShowUsage registers.
RanHelp == ran.called /\ ran.handler = "help"

\* C14 as stated: the command OnHelpShowUsage registers prints the
\* top-level usage when run on no argument or on more than one, and the
\* usage of the named command when run on exactly one.  Stated for an
\* argument that names a registered command.
C14_Original ==
    RanHelp =>
        /\ Len(ran.hargs) # 1 => ran.out = <<"Usage">>
        /\ (Len(ran.hargs) = 1 /\ ran.hargs[1] \in DOMAIN cmds) =>
              ran.out = <<"subcommandUsage", ran.hargs[1]>>

\* C14 amended: the command prints the top-level usage when run on no
\* argument, the usage of the "help" command itself when run on more than
\* one, and on exactly one the usage of the command of that name, or,
\* when no such command is registered, a message and the top-level usage
\* before the process exits.
C14_Amended ==
    RanHelp =>
        /\ Len(ran.hargs) = 0 => (ran.out = <<"Usage">> /\ ~ran.exited)
        /\ Len(ran.hargs) > 1 =>
              (ran.out = <<"subcommandUsage", "help">> /\ ~ran.exited)
        /\ (Len(ran.hargs) = 1 /\ ran.hargs[1] \in DOMAIN cmds) =>
              (ran.out = <<"subcommandUsage", ran.hargs[1]>> /\ ~ran.exited)
        /\ (Len(ran.hargs) = 1 /\ ran.hargs[1] \notin DOMAIN cmds) =>
              /\ ran.out = <<"unrecognised command", ran.hargs[1], "Usage">>
              /\ ran.exited

\* "help" run on two arguments.
C14_Witness ==
    /\ RanHelp
    /\ Len(ran.hargs) = 2
    /\ ran.out = <<"subcommandUsage", "help">>

-----------------------------------------------------------------------------
(* Properties of Validate and of the argument specification *)

\* The slots of type t in the argument specification ca.
CountType(ca, t) == Cardinality({i \in DOMAIN ca : ca[i].argType = t})

\* ca is mandatory slots followed by optional slots, with no "..." slot.
MandatoryThenOptional(ca) ==
    \A i \in DOMAIN ca :
        /\ ca[i].argType # "atEllipse"
        /\ \A j \in DOMAIN ca :
              (i < j /\ ca[i].argType = "atOptional")
                  => ca[j].argType = "atOptional"

\* What n tokens give against m mandatory slots followed by o optional
\* ones: "" is the nil error.
ArityOutcome(m, o, n) ==
    IF n < m THEN "too few arguments"
    ELSE IF n > m + o THEN "too many arguments"
    ELSE ""

\* The TryParse call just made ran Validate, on the slots of the command
\* it matched and the positional arguments it stored.
Validated == Returned /\ trace.validated /\ matchingCmd # <<>>

\* C11: against m mandatory slots followed by o optional slots and no
\* "..." slot, Validate gives "too few arguments" on fewer than m tokens,
\* nil on m to m+o tokens and "too many arguments" on more, and TryParse
\* returns the two errors as ArgError with the command's name.
C11_Arity ==
    (Validated /\ MandatoryThenOptional(MatchingCont.args.slots)) =>
        LET ca == MatchingCont.args.slots
            e == ArityOutcome(CountType(ca, "atMandatory"),
                              CountType(ca, "atOptional"), Len(args))
        IN  /\ Validate(ca, args) = e
            /\ ret = IF e = "" THEN RetOK ELSE ArgError(MatchingCont.name, e)

\* One mandatory and one optional slot, three tokens: too many.
C11_Witness ==
    /\ Validated
    /\ MandatoryThenOptional(MatchingCont.args.slots)
    /\ CountType(MatchingCont.args.slots, "atMandatory") = 1
    /\ CountType(MatchingCont.args.slots, "atOptional") = 1
    /\ Len(args) = 3
    /\ ret = ArgError("c1", "too many arguments")

HasEllipse(ca) == \E i \in DOMAIN ca : ca[i].argType = "atEllipse"

\* The position of the first "..." slot of ca.
FirstEllipse(ca) ==
    CHOOSE i \in DOMAIN ca :
        /\ ca[i].argType = "atEllipse"
        /\ \A j \in 1..(i - 1) : ca[j].argType # "atEllipse"

\* The mandatory slots of ca before position e, and after it.
MandatoryBefore(ca, e) ==
    {i \in DOMAIN ca : i < e /\ ca[i].argType = "atMandatory"}

MandatoryAfter(ca, e) ==
    {i \in DOMAIN ca : i > e /\ ca[i].argType = "atMandatory"}

\* The position of the last slot of S, 0 when S is empty.
LastOf(S) == IF S = {} THEN 0 ELSE CHOOSE i \in S : \A j \in S : j <= i

\* C12 as stated: against a specification with a "..." slot, Validate
\* gives nil on every list that has at least one token for each mandatory
\* slot placed before the "..." slot.
C12_Original ==
    (/\ Validated
     /\ HasEllipse(MatchingCont.args.slots)
     /\ Len(args) >= Cardinality(MandatoryBefore(MatchingCont.args.slots,
                                    FirstEllipse(MatchingCont.args.slots))))
        => /\ Validate(MatchingCont.args.slots, args) = ""
           /\ ret = RetOK

\* C12 amended: against a specification with a "..." slot, Validate gives
\* nil exactly when no mandatory slot follows the first "..." slot and
\* there is a token for every slot, mandatory or optional, up to the last
\* mandatory slot before it; it gives "too few arguments" otherwise,
\* and never "too many arguments".
C12_Amended ==
    (Validated /\ HasEllipse(MatchingCont.args.slots)) =>
        LET ca == MatchingCont.args.slots
            e == FirstEllipse(ca)
            accepted == /\ MandatoryAfter(ca, e) = {}
                        /\ Len(args) >= LastOf(MandatoryBefore(ca, e))
        IN  /\ Validate(ca, args) = IF accepted THEN "" ELSE "too few arguments"
            /\ ret = IF accepted THEN RetOK
                     ELSE ArgError(MatchingCont.name, "too few arguments")

\* An optional slot, a mandatory slot, then "...", and one token: the
\* optional slot takes it, and there is one token for the one mandatory
\* slot before "...", yet the outcome is "too few arguments".
C12_Witness ==
    /\ Validated
    /\ Len(MatchingCont.args.slots) = 3
    /\ MatchingCont.args.slots[1].argType = "atOptional"
    /\ MatchingCont.args.slots[2].argType = "atMandatory"
    /\ MatchingCont.args.slots[3].argType = "atEllipse"
    /\ Len(args) = 1
    /\ ret = ArgError(MatchingCont.name, "too few arguments")

\* ca has a slot of type t placed before a mandatory slot.
BeforeMandatory(ca, t) ==
    \E i \in DOMAIN ca, j \in DOMAIN ca :
        i < j /\ ca[i].argType = t /\ ca[j].argType = "atMandatory"

\* C17 as stated: against a specification with a "..." slot or an
\* optional slot placed before a mandatory slot, Validate gives "too few
\* arguments" on every list, so that no input is accepted.
C17_Original ==
    (/\ Validated
     /\ \/ BeforeMandatory(MatchingCont.args.slots, "atEllipse")
        \/ BeforeMandatory(MatchingCont.args.slots, "atOptional"))
        => /\ Validate(MatchingCont.args.slots, args) = "too few arguments"
           /\ ret = ArgError(MatchingCont.name, "too few arguments")

\* C17 amended: against a specification with a "..." slot placed before a
\* mandatory slot, Validate gives "too few arguments" on every list; an
\* optional slot placed before a mandatory slot takes the first token it
\* is offered, and a list as long as the specification is accepted when
\* the specification has no "..." slot.
C17_Amended ==
    Validated =>
        LET ca == MatchingCont.args.slots
        IN  /\ BeforeMandatory(ca, "atEllipse") =>
                  /\ Validate(ca, args) = "too few arguments"
                  /\ ret = ArgError(MatchingCont.name, "too few arguments")
            /\ (~HasEllipse(ca) /\ Len(args) = Len(ca)) =>
                  /\ Validate(ca, args) = ""
                  /\ ret = RetOK

\* "..." before a mandatory slot, three tokens: too few.
C17_Witness ==
    /\ Validated
    /\ BeforeMandatory(MatchingCont.args.slots, "atEllipse")
    /\ Len(args) = 3
    /\ ret = ArgError("c1", "too few arguments")

SlotsOf(patterns) ==
    [i \in 1..Len(patterns) |-> cmdArgFromString(patterns[i])]

\* On stores no specification, and every Arguments call leaves one: the
\* slots there were, followed by those of its patterns in their order.
C18_Registered ==
    /\ \A name \in UserNames :
          On(name) => conts'[cmds'[name]].args = NilArgs
    /\ \A cb \in CmdBuilders, patterns \in PatternLists :
          CmdBuilderArguments(cb, patterns) =>
              conts'[cb].args =
                  [isNil |-> FALSE,
                   slots |-> conts[cb].args.slots \o SlotsOf(patterns)]

\* A TryParse call that matched a command without a specification returns
\* nil without running Validate, and Run hands the handler every
\* positional token; one that matched a command with a specification
\* returns what Validate gives on its slots, and "too many arguments" as
\* ArgError when the specification is empty and the list is not.
C18_Checked ==
    (Returned /\ trace.parsed /\ matchingCmd # <<>>) =>
        LET cont == MatchingCont
            e == Validate(cont.args.slots, args)
        IN  /\ args = SliceFrom(Residue, 1)
            /\ trace.validated = ~cont.args.isNil
            /\ cont.args.isNil =>
                  /\ ret = RetOK
                  /\ ran.called =>
                        (ran.handler = cont.command.id /\ ran.hargs = args)
            /\ ~cont.args.isNil =>
                  /\ ret = IF e = "" THEN RetOK ELSE ArgError(cont.name, e)
                  /\ (cont.args.slots = <<>> /\ args # <<>>) =>
                        ret = ArgError(cont.name, "too many arguments")

\* C18: arity is checked exactly when the command has an argument
\* specification: without an Arguments call every positional list is
\* accepted as it is, with Arguments calls the list is validated against
\* the slots accumulated over the calls in call order, and an Arguments
\* call without patterns leaves an empty specification that rejects every
\* non-empty list with "too many arguments".
C18_Arguments == [][C18_Registered]_vars /\ []C18_Checked

\* Arguments() called with no pattern, a positional token: too many.
C18_Witness ==
    /\ Validated
    /\ MatchingCont.args = [isNil |-> FALSE, slots |-> <<>>]
    /\ args # <<>>
    /\ ret = ArgError("c1", "too many arguments")

=============================================================================
